---- MODULE Spec2Model ----
(***************************************************************************)
(* Model of mysh.c: the parent's token scanner (parse_input_and_exec), the *)
(* executors and pipeline launchers it calls, the children they fork, and  *)
(* the top-level read loop of main.                                        *)
(*                                                                         *)
(* A token is a pointer into the line buffer.  The k-th token of a line is *)
(* either one of the four operators or the plain word Word(k), so two      *)
(* plain tokens of a line are never the same pointer.                      *)
(***************************************************************************)
EXTENDS Integers, Sequences, FiniteSets, TLC

\* ---- program constants (mysh.c:24-32) ----
MAX_ARGS == 10
EXEC_SUCCESS == 0
EXEC_FAILURE == -1
REG_CMD == 0
INPUT == 1
OUTPUT == 2
OUTPUT_APPEND == 3
PIPE == 4

\* ---- bounds of the model ----
\* tokens in one line
MaxLine == 13
\* operator tokens in one line
MaxOps == 3
\* words in a stage or file-name position, unless it runs on to MAX_ARGS words
\* or more: the scanner treats word MaxStage + 1 .. MAX_ARGS - 1 of a run alike
MaxStage == 1
\* lines read by main
MaxLines == 2
\* failing system calls injected in one run
MaxFaults == 1
\* bytes a pipe holds before a writer blocks
PipeCap == 1

NULL == ""
Ops == {"<", ">", ">>", "|"}
Word(k) == "w" \o ToString(k)
IsOp(t) == t \in Ops
NumOps(l) == Cardinality({i \in 1..Len(l) : IsOp(l[i])})

\* a char *[MAX_ARGS + 1] array, slot i of the C array is element i + 1
Slots == 1..(MAX_ARGS + 1)
EmptyArr == [i \in Slots |-> NULL]

\* the NULL-terminated vector execvp reads from an array
RECURSIVE ArgvFrom(_, _)
ArgvFrom(arr, i) ==
  IF i > MAX_ARGS + 1 \/ arr[i] = NULL THEN <<>>
  ELSE <<arr[i]>> \o ArgvFrom(arr, i + 1)
Argv(arr) == ArgvFrom(arr, 1)

\* descriptors and the streams a child ends up with
Tty == [kind |-> "tty", pipe |-> 0, end |-> "", file |-> NULL]
PipeEnd(p, e) == [kind |-> "pipe", pipe |-> p, end |-> e, file |-> NULL]
\* open flags that never truncate
OpenFlagsNoTrunc(mode) == IF mode = INPUT THEN "rdonly" ELSE "append"
OpenFlags(mode) ==
  IF mode = INPUT THEN "rdonly"
  ELSE IF mode = OUTPUT_APPEND THEN "append" ELSE "trunc"
FileFd(name, mode) ==
  [kind |-> "file", pipe |-> 0, end |-> OpenFlags(mode), file |-> name]
PipeFds(p) == {PipeEnd(p, "r"), PipeEnd(p, "w")}

\* the files whose contents are followed: the file-name positions of
\* `cmd > f`, `cmd < in > f` and `a | b > f` with one-word commands
Watched == {Word(3), Word(5)}
\* what a watched file holds before the first line is read
OldContents == <<0>>
\* open(name, flags): O_TRUNC empties the file, O_APPEND and O_RDONLY do not
OpenDisk(d, name, flags) ==
  IF name \in Watched /\ flags = "trunc" THEN [d EXCEPT ![name] = <<>>] ELSE d
\* write(fd, out) by a program whose standard output is fd: O_APPEND writes
\* at the end of the file, otherwise the write starts at offset 0
WriteDisk(d, fd, out) ==
  IF fd.kind = "file" /\ fd.file \in Watched /\ fd.end # "rdonly"
  THEN [d EXCEPT ![fd.file] =
          IF fd.end = "append" THEN @ \o out
          ELSE out \o SubSeq(@, Len(out) + 1, Len(@))]
  ELSE d

VARIABLES
  pc,                 \* "prompt" | "scan" | "wait" | "exited": where the parent is
  exitCause,          \* why the parent exited
  nlines,             \* lines handed to parse_input_and_exec so far
  line,               \* tokens strtok has returned for the current line
  command,
  redirect_cmd,
  input_file,
  output_before_pipe,
  cmd_index,
  redirect_mode,
  pipe_fds,           \* the pipe whose two descriptors pipe_fds[] holds, 0: not set
  ret,                \* value returned by parse_input_and_exec
  msgs,               \* diagnostics printed while processing the line
  cont,               \* what the parent does when wait() returns
  io_file_fd,         \* the descriptor redirect_io holds across exec_command
  fds,                \* descriptors the parent opened on this line and still holds
  stale,              \* descriptors still open from earlier lines
  npipes,             \* pipes created on this line
  fill,               \* fill[p]: bytes buffered in pipe p
  children,           \* the children forked on this line, in fork order
  opens,              \* files opened on this line, in order
  closed,             \* pipe descriptors the parent closed on this line, in order
  faults,             \* system-call failures injected so far
  disk,               \* disk[f]: contents of watched file f, a sequence of records
  disk0,              \* disk when parse_input_and_exec was entered
  stored,             \* indices of command[] and redirect_cmd[] written on this line
  to_close            \* the pipe whose pair the parent closes before it waits, 0: none

vars == <<pc, exitCause, nlines, line, command, redirect_cmd, input_file,
          output_before_pipe, cmd_index, redirect_mode, pipe_fds, ret, msgs,
          cont, io_file_fd, fds, stale, npipes, fill, children, opens, closed,
          faults, disk, disk0, stored, to_close>>

\* the state as one record, so that each C function is an operator on it
St ==
  [pc |-> pc, exitCause |-> exitCause, nlines |-> nlines, line |-> line,
   command |-> command, redirect_cmd |-> redirect_cmd,
   input_file |-> input_file, output_before_pipe |-> output_before_pipe,
   cmd_index |-> cmd_index, redirect_mode |-> redirect_mode,
   pipe_fds |-> pipe_fds, ret |-> ret, msgs |-> msgs, cont |-> cont,
   io_file_fd |-> io_file_fd, fds |-> fds, stale |-> stale,
   npipes |-> npipes, fill |-> fill, children |-> children, opens |-> opens,
   closed |-> closed, faults |-> faults, disk |-> disk, disk0 |-> disk0,
   stored |-> stored, to_close |-> to_close]

Become(s) ==
  /\ pc' = s.pc
  /\ exitCause' = s.exitCause
  /\ nlines' = s.nlines
  /\ line' = s.line
  /\ command' = s.command
  /\ redirect_cmd' = s.redirect_cmd
  /\ input_file' = s.input_file
  /\ output_before_pipe' = s.output_before_pipe
  /\ cmd_index' = s.cmd_index
  /\ redirect_mode' = s.redirect_mode
  /\ pipe_fds' = s.pipe_fds
  /\ ret' = s.ret
  /\ msgs' = s.msgs
  /\ cont' = s.cont
  /\ io_file_fd' = s.io_file_fd
  /\ fds' = s.fds
  /\ stale' = s.stale
  /\ npipes' = s.npipes
  /\ fill' = s.fill
  /\ children' = s.children
  /\ opens' = s.opens
  /\ closed' = s.closed
  /\ faults' = s.faults
  /\ disk' = s.disk
  /\ disk0' = s.disk0
  /\ stored' = s.stored
  /\ to_close' = s.to_close

\* a system call of the parent fails in this step
Fault(s) == [s EXCEPT !.faults = @ + 1]
\* the failures an action may draw: f is "none" or the name of the failing call
MayFail(calls) ==
  {"none"} \cup (IF faults < MaxFaults THEN calls ELSE {})

\* ---- error helpers (mysh.c:85-120) ----

\* perror(cmd)
perror(s, cmd) == [s EXCEPT !.msgs = Append(@, cmd)]

\* perror(cmd); exit(EXIT_FAILURE) in the parent
perror_exit(s, cmd) ==
  [perror(s, cmd) EXCEPT !.pc = "exited", !.exitCause = cmd]

\* close_pipes(pipe_fds) in the parent: two close() calls, each followed by
\* perror_exit when it fails (f = "close": the first, f = "close2": the
\* second); close() of a descriptor the parent does not hold fails with EBADF
close_pipes(s, p, f) ==
  IF f = "close" \/ PipeEnd(p, "r") \notin s.fds
  THEN perror_exit(s, "close()")
  ELSE LET s1 == [s EXCEPT !.fds = @ \ {PipeEnd(p, "r")},
                           !.closed = Append(@, PipeEnd(p, "r"))]
       IN IF f = "close2" \/ PipeEnd(p, "w") \notin s1.fds
          THEN perror_exit(s1, "close()")
          ELSE [s1 EXCEPT !.fds = @ \ {PipeEnd(p, "w")},
                          !.closed = Append(@, PipeEnd(p, "w"))]

\* pipe(pipe_fds) succeeding
NewPipe(s) ==
  [s EXCEPT !.npipes = @ + 1,
            !.pipe_fds = s.npipes + 1,
            !.fds = @ \cup PipeFds(s.npipes + 1),
            !.fill = Append(@, 0)]

\* the child branch of launcher `by`: it is to run argv with the given
\* standard streams
\* state: "forked" until the child has called execvp, then "running" or
\*   "blocked" (in write()), at last "exited"
\* execs: execvp succeeded, the program argv[0] has been run
\* calls: the system calls the child has still to make before its program
\*   runs, in the order of its branch of the launcher
\* closes: the descriptors the child closes before its exec
\* held: the original descriptor numbers open in the child; once the child
\*   has exited, those that were open when it left
\* wrote: the program has written to its standard output, a file
Child(by, argv, in, out) ==
  [by |-> by, argv |-> argv, stdin |-> in, stdout |-> out, state |-> "forked",
   execs |-> FALSE, calls |-> <<>>, closes |-> {}, held |-> {}, wrote |-> FALSE]
\* the child closes the descriptors D before execvp
Closing(c, D) == [c EXCEPT !.closes = D]
\* the descriptor open() returns for an opened file
FdOf(o) == [kind |-> "file", pipe |-> 0, end |-> o.flags, file |-> o.file]
\* the order in which a child branch closes descriptors: the input file
\* before the output file (mysh.c:533-540), pipe_fds[0] before pipe_fds[1]
\* (mysh.c:112-119), the old pair before the new one (mysh.c:615-616)
Rank(fd) ==
  IF fd.kind = "file" THEN (IF fd.end = "rdonly" THEN 0 ELSE 1)
  ELSE 2 * fd.pipe + (IF fd.end = "r" THEN 0 ELSE 1)
Ordered(D) ==
  [i \in 1..Cardinality(D) |->
     CHOOSE d \in D : Cardinality({e \in D : Rank(e) < Rank(d)}) = i - 1]
\* the calls of a child branch: it opens its files, duplicates what is to be
\* its standard input and then what is to be its standard output onto the
\* standard streams, closes the originals it closes, and calls execvp
Branch(c, files) ==
  [j \in 1..Len(files) |-> [op |-> "open", fd |-> FdOf(files[j]), by |-> files[j].by]]
  \o (IF c.stdin.kind = "tty" THEN <<>>
      ELSE <<[op |-> "dup2", fd |-> c.stdin, by |-> "stdin"]>>)
  \o (IF c.stdout.kind = "tty" THEN <<>>
      ELSE <<[op |-> "dup2", fd |-> c.stdout, by |-> "stdout"]>>)
  \o [j \in 1..Cardinality(c.closes) |->
        [op |-> "close", fd |-> Ordered(c.closes)[j], by |-> ""]]
  \o <<[op |-> "execvp", fd |-> Tty, by |-> ""]>>
\* fork() succeeding: the child starts with a copy of the parent's
\* descriptors and has its branch of the launcher still to run
Fork(s, c, files) ==
  [s EXCEPT !.children =
              Append(@, [c EXCEPT !.held = s.fds, !.calls = Branch(c, files)])]

\* a parent that does not wait for the child it forked
WaitSkipped(s) == s

\* wait(NULL): the parent blocks until its child has terminated
Wait(s) == [s EXCEPT !.pc = "wait"]
\* the parent branch after fork(): close_pipes(p), then wait(NULL); the
\* child runs from fork() on
CloseThenWait(s, p) == [s EXCEPT !.pc = "close_pipes", !.to_close = p]

Opened(name, mode, who) == [file |-> name, flags |-> OpenFlags(mode), by |-> who]
\* ---- parse_input_and_exec's own steps after a launcher returns ----

\* return from parse_input_and_exec
Return(s, r) == [s EXCEPT !.ret = r, !.pc = "prompt"]

\* redirect_io that returns without closing the file it opened
CloseIoFileSkipped(s, f) == [s EXCEPT !.io_file_fd = Tty]

\* close(io_file_fd) at the end of redirect_io (mysh.c:487-490); the
\* descriptor is released whether or not close() reports an error
CloseIoFile(s, f) ==
  LET s1 == [s EXCEPT !.fds = @ \ {s.io_file_fd}, !.io_file_fd = Tty]
  IN IF f = "close" THEN perror(s1, "close()") ELSE s1

\* the rest of the handler that called a launcher, run when the launcher
\* returns: "pipe" is mysh.c:325-326, "return" is mysh.c:371, "close" is
\* mysh.c:487-490 followed by mysh.c:371
Continue(s, k, f) ==
  IF k = "pipe" THEN [s EXCEPT !.cmd_index = 0, !.redirect_mode = PIPE, !.pc = "scan"]
  ELSE IF k = "close" THEN Return(CloseIoFile(s, f), EXEC_SUCCESS)
  ELSE Return(s, EXEC_SUCCESS)

\* a launcher left the parent exited, blocked in wait(), or running on
Then(s, k) ==
  IF s.pc = "exited" THEN s
  ELSE IF s.pc \in {"wait", "close_pipes"} THEN [s EXCEPT !.cont = k]
  ELSE Continue(s, k, "none")

\* ---- executors (mysh.c:399-547) ----

\* exec_command whose parent does not wait for the child
exec_command_nowait(s, mode, cmd, fd, f) ==
  IF f = "fork" THEN perror(s, "fork()")
  ELSE Fork(s, Closing(Child("exec_command", Argv(cmd),
                             IF mode = INPUT THEN fd ELSE Tty,
                             IF mode \in {OUTPUT, OUTPUT_APPEND} THEN fd ELSE Tty),
                       IF mode = REG_CMD THEN {} ELSE {fd}),
            <<>>)

\* exec_command that treats a failed fork like the other failed calls
exec_command_forkexit(s, mode, cmd, fd, f) ==
  IF f = "fork" THEN perror_exit(s, "fork()")
  ELSE Wait(Fork(s, Closing(Child("exec_command", Argv(cmd),
                                  IF mode = INPUT THEN fd ELSE Tty,
                                  IF mode \in {OUTPUT, OUTPUT_APPEND} THEN fd ELSE Tty),
                            IF mode = REG_CMD THEN {} ELSE {fd}),
                 <<>>))

exec_command(s, mode, cmd, fd, f) ==
  IF f = "fork" THEN perror(s, "fork()")
  ELSE Wait(Fork(s, Closing(Child("exec_command", Argv(cmd),
                                  IF mode = INPUT THEN fd ELSE Tty,
                                  IF mode \in {OUTPUT, OUTPUT_APPEND} THEN fd ELSE Tty),
                            IF mode = REG_CMD THEN {} ELSE {fd}),
                 <<>>))

redirect_io(s, mode, cmd, io_file, exec_redirection, f) ==
  IF mode = INPUT /\ ~exec_redirection THEN s
  ELSE IF f = "open" \/ io_file = NULL THEN perror(s, "open()")
  ELSE LET fd == FileFd(io_file, mode)
           s1 == [s EXCEPT !.fds = @ \cup {fd},
                           !.io_file_fd = fd,
                           !.opens = Append(@, Opened(io_file, mode, "parent")),
                           !.disk = OpenDisk(@, io_file, OpenFlags(mode))]
       IN IF exec_redirection
          THEN exec_command(s1, mode, cmd, fd, f)
          ELSE CloseIoFile(s1, f)

exec_redir_bothio(s, output_mode, cmd, in_file, out_file, f) ==
  IF f = "fork" THEN perror(s, "fork()")
  ELSE Wait(Fork(s, Closing(Child("exec_redir_bothio", Argv(cmd),
                                  FileFd(in_file, INPUT),
                                  FileFd(out_file, output_mode)),
                            {FileFd(in_file, INPUT), FileFd(out_file, output_mode)}),
                 <<Opened(in_file, INPUT, "child"),
                   Opened(out_file, output_mode, "child")>>))

\* ---- pipeline launchers (mysh.c:551-744) ----

\* input_pipe whose parent goes on scanning without waiting for the child
input_pipe_nowait(s, cmd, f) ==
  IF f = "pipe" THEN perror_exit(s, "pipe()")
  ELSE LET s1 == NewPipe(s)
       IN IF f = "fork" THEN perror(s1, "fork()")
          ELSE Fork(s1, Closing(Child("input_pipe", Argv(cmd), Tty,
                                      PipeEnd(s1.pipe_fds, "w")),
                                PipeFds(s1.pipe_fds)), <<>>)

input_pipe(s, cmd, f) ==
  IF f = "pipe" THEN perror_exit(s, "pipe()")
  ELSE LET s1 == NewPipe(s)
       IN IF f = "fork" THEN perror(s1, "fork()")
          ELSE Wait(Fork(s1, Closing(Child("input_pipe", Argv(cmd), Tty,
                                           PipeEnd(s1.pipe_fds, "w")),
                                     PipeFds(s1.pipe_fds)), <<>>))

\* inter_pipe without saving the old pair: the child reads the new pipe
inter_pipe_nosave(s, cmd, f) ==
  LET old == s.pipe_fds
  IN IF f = "pipe" THEN perror_exit(s, "pipe()")
     ELSE LET s1 == NewPipe(s)
          IN IF f = "fork" THEN perror(s1, "fork()")
             ELSE LET s2 == Fork(s1, Closing(Child("inter_pipe", Argv(cmd),
                                                   PipeEnd(s1.pipe_fds, "r"),
                                                   PipeEnd(s1.pipe_fds, "w")),
                                             PipeFds(old) \cup PipeFds(s1.pipe_fds)),
                                   <<>>)
                  IN CloseThenWait(s2, old)

\* inter_pipe whose parent closes the pair it has just created
inter_pipe_closenew(s, cmd, f) ==
  LET old == s.pipe_fds
  IN IF f = "pipe" THEN perror_exit(s, "pipe()")
     ELSE LET s1 == NewPipe(s)
          IN IF f = "fork" THEN perror(s1, "fork()")
             ELSE LET s2 == Fork(s1, Closing(Child("inter_pipe", Argv(cmd),
                                                   PipeEnd(old, "r"),
                                                   PipeEnd(s1.pipe_fds, "w")),
                                             PipeFds(old) \cup PipeFds(s1.pipe_fds)),
                                   <<>>)
                  IN CloseThenWait(s2, s1.pipe_fds)

inter_pipe(s, cmd, f) ==
  LET old == s.pipe_fds
  IN IF f = "pipe" THEN perror_exit(s, "pipe()")
     ELSE LET s1 == NewPipe(s)
          IN IF f = "fork" THEN perror(s1, "fork()")
             ELSE LET s2 == Fork(s1, Closing(Child("inter_pipe", Argv(cmd),
                                                   PipeEnd(old, "r"),
                                                   PipeEnd(s1.pipe_fds, "w")),
                                             PipeFds(old) \cup PipeFds(s1.pipe_fds)),
                                   <<>>)
                  IN CloseThenWait(s2, old)

\* output_pipe whose parent waits without closing its copy of the pair
output_pipe_noclose(s, cmd, f) ==
  IF f = "fork" THEN perror(s, "fork()")
  ELSE Wait(Fork(s, Closing(Child("output_pipe", Argv(cmd),
                                  PipeEnd(s.pipe_fds, "r"), Tty),
                            PipeFds(s.pipe_fds)), <<>>))

output_pipe(s, cmd, f) ==
  IF f = "fork" THEN perror(s, "fork()")
  ELSE LET s1 == Fork(s, Closing(Child("output_pipe", Argv(cmd),
                                       PipeEnd(s.pipe_fds, "r"), Tty),
                                 PipeFds(s.pipe_fds)), <<>>)
       IN CloseThenWait(s1, s.pipe_fds)

input_pipe_redirect(s, cmd, in_file, f) ==
  IF f = "pipe" THEN perror_exit(s, "pipe()")
  ELSE LET s1 == NewPipe(s)
       IN IF f = "fork" THEN perror(s1, "fork()")
          ELSE Wait(Fork(s1, Closing(Child("input_pipe_redirect", Argv(cmd),
                                           FileFd(in_file, INPUT),
                                           PipeEnd(s1.pipe_fds, "w")),
                                     PipeFds(s1.pipe_fds)),
                         <<Opened(in_file, INPUT, "child")>>))

output_pipe_redirect(s, output_mode, cmd, out_file, f) ==
  IF f = "fork" THEN perror(s, "fork()")
  ELSE LET s1 == Fork(s, Closing(Child("output_pipe_redirect", Argv(cmd),
                                       PipeEnd(s.pipe_fds, "r"),
                                       FileFd(out_file, output_mode)),
                                 PipeFds(s.pipe_fds)),
                      <<Opened(out_file, output_mode, "child")>>)
       IN CloseThenWait(s1, s.pipe_fds)
\* ---- save_command (mysh.c:379-387) ----

\* dest after save_command(dest, command, cmd_index)
SavedDest(dest, cmd, n) ==
  LET c1 == [cmd EXCEPT ![n + 1] = NULL]
  IN [i \in Slots |-> IF i <= n + 1 THEN c1[i] ELSE dest[i]]
\* command after save_command(dest, command, cmd_index)
SavedCommand(cmd, n) == [cmd EXCEPT ![n + 1] = NULL, ![1] = NULL]
save_command(s) ==
  [s EXCEPT !.redirect_cmd = SavedDest(s.redirect_cmd, s.command, s.cmd_index),
            !.command = SavedCommand(s.command, s.cmd_index),
            !.stored = @ \cup (0..s.cmd_index)]

\* ---- parse_input_and_exec (mysh.c:218-372), one loop iteration per step ----

\* strtok returned token
Scanned(s, token) == [s EXCEPT !.line = Append(@, token)]

printf(s, m) == [s EXCEPT !.msgs = Append(@, m)]

\* mysh.c:328-333
TokenWord(s, token) ==
  [s EXCEPT !.command[s.cmd_index + 1] = token, !.cmd_index = @ + 1,
            !.stored = @ \cup {s.cmd_index}]

\* `<` also taken after a `|`
InputAllowedAfterPipe(mode) == mode \in {REG_CMD, PIPE}

\* mysh.c:248: `<` is taken in this mode
InputAllowed(mode) == mode = REG_CMD

\* `|` taken in every mode
PipeAllowedAlways(mode) == TRUE

\* mysh.c:296: `|` is taken in this mode
PipeAllowed(mode) == mode \notin {OUTPUT, OUTPUT_APPEND}

\* mysh.c:246-259
TokenInput(s) ==
  IF ~InputAllowed(s.redirect_mode)
  THEN Return(printf(s, "Cannot perform redirection before input."), EXEC_FAILURE)
  ELSE [save_command(s) EXCEPT !.redirect_mode = INPUT, !.cmd_index = 0]

\* TokenOutput that does not record that the output follows a pipe
TokenOutputUnmarked(s, token, f) ==
  LET output_mode == IF token = ">>" THEN OUTPUT_APPEND ELSE OUTPUT
      next(s1) == [s1 EXCEPT !.redirect_mode = output_mode, !.cmd_index = 0]
  IN IF s.redirect_mode = INPUT
     THEN IF s.command[1] = NULL
          THEN Return(printf(s, "No file for input redirection."), EXEC_FAILURE)
          ELSE next([s EXCEPT !.input_file = s.command[1]])
     ELSE IF s.redirect_mode \in {OUTPUT, OUTPUT_APPEND}
     THEN IF s.command[1] = NULL
          THEN Return(printf(s, "No file for output redirection."), EXEC_FAILURE)
          ELSE next(redirect_io(s, s.redirect_mode, EmptyArr, s.command[1], FALSE, f))
     ELSE next(save_command(s))

\* TokenOutput that opens the pending file in the mode of the new operator
TokenOutputNextMode(s, token, f) ==
  LET output_mode == IF token = ">>" THEN OUTPUT_APPEND ELSE OUTPUT
      next(s1) == [s1 EXCEPT !.redirect_mode = output_mode, !.cmd_index = 0]
  IN IF s.redirect_mode = INPUT
     THEN IF s.command[1] = NULL
          THEN Return(printf(s, "No file for input redirection."), EXEC_FAILURE)
          ELSE next([s EXCEPT !.input_file = s.command[1]])
     ELSE IF s.redirect_mode \in {OUTPUT, OUTPUT_APPEND}
     THEN IF s.command[1] = NULL
          THEN Return(printf(s, "No file for output redirection."), EXEC_FAILURE)
          ELSE next(redirect_io(s, output_mode, EmptyArr, s.command[1], FALSE, f))
     ELSE next(save_command(
                 IF s.redirect_mode = PIPE
                 THEN [s EXCEPT !.output_before_pipe = 1] ELSE s))

\* mysh.c:260-293
TokenOutput(s, token, f) ==
  LET output_mode == IF token = ">>" THEN OUTPUT_APPEND ELSE OUTPUT
      next(s1) == [s1 EXCEPT !.redirect_mode = output_mode, !.cmd_index = 0]
  IN IF s.redirect_mode = INPUT
     THEN IF s.command[1] = NULL
          THEN Return(printf(s, "No file for input redirection."), EXEC_FAILURE)
          ELSE next([s EXCEPT !.input_file = s.command[1]])
     ELSE IF s.redirect_mode \in {OUTPUT, OUTPUT_APPEND}
     THEN IF s.command[1] = NULL
          THEN Return(printf(s, "No file for output redirection."), EXEC_FAILURE)
          ELSE next(redirect_io(s, s.redirect_mode, EmptyArr, s.command[1], FALSE, f))
     ELSE next(save_command(
                 IF s.redirect_mode = PIPE
                 THEN [s EXCEPT !.output_before_pipe = 1] ELSE s))

\* mysh.c:294-327
TokenPipe(s, f) ==
  IF ~PipeAllowed(s.redirect_mode)
  THEN Return(printf(s, "Cannot perform output operation before piping."), EXEC_FAILURE)
  ELSE IF s.redirect_mode = PIPE
  THEN IF s.command[1] = NULL
       THEN Return(printf(s, "Missing program to pipe to."), EXEC_FAILURE)
       ELSE LET s1 == [s EXCEPT !.command[s.cmd_index + 1] = NULL,
                                !.stored = @ \cup {s.cmd_index}]
            IN Then(inter_pipe(s1, s1.command, f), "pipe")
  ELSE IF s.redirect_mode = INPUT
  THEN Then(input_pipe_redirect(s, s.redirect_cmd, s.command[1], f), "pipe")
  ELSE LET s1 == [s EXCEPT !.command[s.cmd_index + 1] = NULL,
                           !.stored = @ \cup {s.cmd_index}]
       IN Then(input_pipe(s1, s1.command, f), "pipe")

\* EndOfInput whose final pipeline stage runs the pending stage buffer
EndOfInputPending(s0, f) ==
  LET s == [s0 EXCEPT !.command[s0.cmd_index + 1] = NULL,
                       !.stored = @ \cup {s0.cmd_index}]
  IN IF s.redirect_mode = REG_CMD
     THEN Then(exec_command(s, REG_CMD, s.command, Tty, f), "return")
     ELSE IF s.command[1] = NULL
     THEN Return(printf(s, "No file for I/O redirection."), EXEC_FAILURE)
     ELSE IF s.redirect_mode = INPUT
     THEN Then(redirect_io(s, INPUT, s.redirect_cmd, s.command[1], TRUE, f), "close")
     ELSE IF s.redirect_mode \in {OUTPUT, OUTPUT_APPEND}
     THEN IF s.input_file # NULL
          THEN Then(exec_redir_bothio(s, s.redirect_mode, s.redirect_cmd,
                                      s.input_file, s.command[1], f), "return")
          ELSE IF s.output_before_pipe = 1
          THEN Then(output_pipe_redirect(s, s.redirect_mode, s.redirect_cmd,
                                         s.command[1], f), "return")
          ELSE Then(redirect_io(s, s.redirect_mode, s.redirect_cmd,
                                s.command[1], TRUE, f), "close")
     ELSE Then(output_pipe(s, s.redirect_cmd, f), "return")

\* mysh.c:239-243 and 337-371
EndOfInput(s0, f) ==
  LET s == [s0 EXCEPT !.command[s0.cmd_index + 1] = NULL,
                       !.stored = @ \cup {s0.cmd_index}]
  IN IF s.redirect_mode = REG_CMD
     THEN Then(exec_command(s, REG_CMD, s.command, Tty, f), "return")
     ELSE IF s.command[1] = NULL
     THEN Return(printf(s, "No file for I/O redirection."), EXEC_FAILURE)
     ELSE IF s.redirect_mode = INPUT
     THEN Then(redirect_io(s, INPUT, s.redirect_cmd, s.command[1], TRUE, f), "close")
     ELSE IF s.redirect_mode \in {OUTPUT, OUTPUT_APPEND}
     THEN IF s.input_file # NULL
          THEN Then(exec_redir_bothio(s, s.redirect_mode, s.redirect_cmd,
                                      s.input_file, s.command[1], f), "return")
          ELSE IF s.output_before_pipe = 1
          THEN Then(output_pipe_redirect(s, s.redirect_mode, s.redirect_cmd,
                                         s.command[1], f), "return")
          ELSE Then(redirect_io(s, s.redirect_mode, s.redirect_cmd,
                                s.command[1], TRUE, f), "close")
     ELSE Then(output_pipe(s, s.command, f), "return")

\* break instead of return: the truncated command is run
TooManyBreak(s) ==
  EndOfInput([printf(s, "Too many args.") EXCEPT !.cmd_index = MAX_ARGS], "none")

\* mysh.c:232-236
TooMany(s) == Return(printf(s, "Too many args."), EXEC_FAILURE)

\* ---- main and get_input (mysh.c:63-78, 183-210) ----

\* exit_shell()
exit_shell(s, why) == [s EXCEPT !.pc = "exited", !.exitCause = why]

\* parse_input_and_exec is entered: its locals are initialised (mysh.c:220-227),
\* and what the previous line left open stays open
EnterParse(s) ==
  [s EXCEPT !.pc = "scan", !.nlines = @ + 1, !.line = <<>>,
            !.command = EmptyArr, !.redirect_cmd = EmptyArr,
            !.input_file = NULL, !.output_before_pipe = 0,
            !.cmd_index = 0, !.redirect_mode = REG_CMD, !.pipe_fds = 0,
            !.ret = EXEC_SUCCESS, !.msgs = <<>>, !.cont = "",
            !.io_file_fd = Tty, !.fds = {},
            !.stale = @ + Cardinality(s.fds), !.npipes = 0, !.fill = <<>>,
            !.children = <<>>, !.opens = <<>>, !.closed = <<>>,
            !.disk0 = s.disk, !.stored = {},
            !.to_close = 0]

\* what is one of "line", "exit" (the user typed exit), "eof", "error"
get_input(s, what) ==
  IF what = "error" THEN perror_exit(s, "get_input()")
  ELSE IF what \in {"exit", "eof"} THEN exit_shell(s, what)
  ELSE EnterParse(s)

\* ---- actions ----

Counted(s, f) == IF f = "none" THEN s ELSE Fault(s)
HasRoom == Len(line) < MaxLine
\* the fill index is compared with the size of the buffer plus one
ScanningLate == pc = "scan" /\ cmd_index < MAX_ARGS + 2
\* mysh.c:232: the loop body goes on past the check of the fill index
Scanning == pc = "scan" /\ cmd_index < MAX_ARGS + 1
\* the run of words collected so far may end here
RunEnds == cmd_index <= MaxStage \/ cmd_index >= MAX_ARGS
OpRoom == HasRoom /\ NumOps(line) < MaxOps /\ RunEnds
\* one more word leaves a run that may end within the line
RunFits ==
  cmd_index + 1 <= MaxStage \/ Len(line) + MAX_ARGS - cmd_index <= MaxLine

Init ==
  /\ pc = "prompt" /\ exitCause = "" /\ nlines = 0 /\ line = <<>>
  /\ command = EmptyArr /\ redirect_cmd = EmptyArr /\ input_file = NULL
  /\ output_before_pipe = 0 /\ cmd_index = 0 /\ redirect_mode = REG_CMD
  /\ pipe_fds = 0 /\ ret = EXEC_SUCCESS /\ msgs = <<>> /\ cont = ""
  /\ io_file_fd = Tty /\ fds = {} /\ stale = 0 /\ npipes = 0 /\ fill = <<>>
  /\ children = <<>> /\ opens = <<>> /\ closed = <<>> /\ faults = 0
  /\ disk = [f \in Watched |-> OldContents] /\ disk0 = disk /\ stored = {}
  /\ to_close = 0

GetInput ==
  /\ pc = "prompt"
  /\ \E what \in {"exit", "eof"} \cup (IF nlines < MaxLines THEN {"line"} ELSE {})
                  \cup (IF faults < MaxFaults THEN {"error"} ELSE {}) :
       Become(get_input(Counted(St, IF what = "error" THEN what ELSE "none"), what))

ScanTooMany ==
  /\ pc = "scan" /\ cmd_index >= MAX_ARGS + 1
  /\ Become(TooMany(St))

ScanWord ==
  /\ Scanning /\ HasRoom /\ RunFits
  /\ LET token == Word(Len(line) + 1)
     IN Become(TokenWord(Scanned(St, token), token))

ScanInput ==
  /\ Scanning /\ OpRoom
  /\ Become(TokenInput(Scanned(St, "<")))

ScanOutput ==
  /\ Scanning /\ OpRoom
  /\ \E token \in {">", ">>"} : \E f \in MayFail({"open", "close"}) :
       Become(TokenOutput(Scanned(Counted(St, f), token), token, f))

ScanPipe ==
  /\ Scanning /\ OpRoom
  /\ \E f \in MayFail({"pipe", "fork"}) :
       Become(TokenPipe(Scanned(Counted(St, f), "|"), f))

ScanEnd ==
  /\ Scanning /\ RunEnds
  /\ \E f \in MayFail({"open", "fork"}) :
       Become(EndOfInput(Counted(St, f), f))

\* the parent branch of inter_pipe, output_pipe and output_pipe_redirect
\* between fork() and wait(NULL) (mysh.c:620-623, 650-652, 740-742)
ClosePipes ==
  /\ pc = "close_pipes"
  /\ \E f \in MayFail({"close", "close2"}) :
       LET s == close_pipes(Counted(St, f), to_close, f)
       IN Become(IF s.pc = "exited" THEN s ELSE [Wait(s) EXCEPT !.to_close = 0])

\* wait(NULL) returns once the child has terminated
WaitReturn ==
  /\ pc = "wait"
  /\ children[Len(children)].state = "exited"
  /\ \E f \in MayFail(IF cont = "close" THEN {"close"} ELSE {}) :
       Become(Continue(Counted(St, f), cont, f))

\* some live process holds the read end of pipe p: the parent, a child
\* whose standard input it is, or a child that has its original descriptor
ReadEndOpen(p) ==
  \/ pc # "exited" /\ PipeEnd(p, "r") \in fds
  \/ \E j \in 1..Len(children) :
       /\ children[j].state # "exited"
       /\ \/ children[j].stdin = PipeEnd(p, "r")
          \/ PipeEnd(p, "r") \in children[j].held

\* what the shell has printed and not yet flushed when its standard output
\* is not a terminal: the child inherits the buffer and exit() writes it out
Unflushed == <<-1>>
\* exit() in a child whose standard output has been redirected
Flushed(s, c, flush) ==
  IF ~flush THEN s
  ELSE IF c.stdout.kind = "file"
  THEN [s EXCEPT !.disk = WriteDisk(@, c.stdout, Unflushed)]
  ELSE IF c.stdout.kind = "pipe" /\ s.fill[c.stdout.pipe] < PipeCap
  THEN [s EXCEPT !.fill[c.stdout.pipe] = @ + 1]
  ELSE s
\* the child has duplicated a file or a pipe onto its standard output
Redirected(c) ==
  /\ c.stdout.kind # "tty"
  /\ \A j \in 1..Len(c.calls) : c.calls[j].by # "stdout"

\* the next call of child c fails whatever the system does: open(NULL),
\* execvp(NULL), dup2() or close() of a descriptor the child does not hold
Doomed(c) ==
  LET call == Head(c.calls)
  IN \/ call.op = "open" /\ call.fd.file = NULL
     \/ call.op = "execvp" /\ c.argv = <<>>
     \/ call.op \in {"dup2", "close"} /\ call.fd \notin c.held

\* the next call of the child branch of a launcher (mysh.c:408-437,
\* 510-541, 566-575, 604-617, 638-646, 675-691, 713-732)
\* fails = FALSE: the call succeeds; after execvp the program runs
\* fails = TRUE: the call fails and the child leaves through perror_exit
\*   (a child that called execvp(NULL) is killed); the descriptor of a
\*   failed close() is gone all the same
\* flush: the child leaves through exit() with text in the stdio buffer it
\*   inherited (the shell's standard output is not a terminal)
SetUp(s, i, fails, flush) ==
  LET c == s.children[i]
      call == Head(c.calls)
  IN IF fails
     THEN [Flushed(s, c, flush) EXCEPT
             !.children[i].state = "exited",
             !.children[i].calls = <<>>,
             !.children[i].held = IF call.op = "close" THEN @ \ {call.fd} ELSE @]
     ELSE IF call.op = "open"
     THEN [s EXCEPT !.opens = Append(@, [file |-> call.fd.file,
                                         flags |-> call.fd.end,
                                         by |-> call.by]),
                    !.disk = OpenDisk(@, call.fd.file, call.fd.end),
                    !.children[i].held = @ \cup {call.fd},
                    !.children[i].calls = Tail(@)]
     ELSE IF call.op = "dup2"
     THEN [s EXCEPT !.children[i].calls = Tail(@)]
     ELSE IF call.op = "close"
     THEN [s EXCEPT !.children[i].held = @ \ {call.fd},
                    !.children[i].calls = Tail(@)]
     ELSE [s EXCEPT !.children[i].state = "running",
                    !.children[i].execs = TRUE,
                    !.children[i].calls = <<>>]

ChildExec(i) ==
  /\ children[i].state = "forked"
  /\ LET c == children[i]
         killed == Head(c.calls).op = "execvp" /\ c.argv = <<>>
     IN \E fails \in IF Doomed(c) THEN {TRUE}
                     ELSE IF faults < MaxFaults THEN BOOLEAN ELSE {FALSE} :
          \E flush \in IF fails /\ ~killed /\ Redirected(c)
                       THEN BOOLEAN ELSE {FALSE} :
            Become(SetUp(IF fails /\ ~Doomed(c) THEN Fault(St) ELSE St,
                         i, fails, flush))

\* what a program run on this line writes to its standard output, if it
\* writes
Output == <<nlines>>
\* a running program writes to its standard output. To a pipe it writes
\* one byte: the byte is buffered, or the writer blocks while the pipe is
\* full, or it is killed by SIGPIPE when nobody holds the read end. To a
\* file whose contents are followed it writes its output, once.
ChildWrite(i) ==
  /\ children[i].state \in {"running", "blocked"}
  /\ children[i].execs
  /\ children[i].stdout.kind \in {"pipe", "file"}
  /\ LET p == children[i].stdout.pipe
     IN IF children[i].stdout.kind = "file"
        THEN /\ children[i].stdout.file \in Watched
             /\ ~children[i].wrote
             /\ Become([St EXCEPT !.children[i].wrote = TRUE,
                                  !.disk = WriteDisk(@, children[i].stdout, Output)])
        ELSE IF ~ReadEndOpen(p)
        THEN Become([St EXCEPT !.children[i].state = "exited"])
        ELSE IF fill[p] < PipeCap
        THEN Become([St EXCEPT !.fill[p] = @ + 1, !.children[i].state = "running"])
        ELSE Become([St EXCEPT !.children[i].state = "blocked"])

\* a running program reads what its standard input, a pipe, holds
ChildRead(i) ==
  /\ children[i].state = "running"
  /\ children[i].execs
  /\ children[i].stdin.kind = "pipe"
  /\ fill[children[i].stdin.pipe] > 0
  /\ Become([St EXCEPT !.fill[children[i].stdin.pipe] = 0])

\* a program that is not blocked in write() terminates
ChildExit(i) ==
  /\ children[i].state = "running"
  /\ Become([St EXCEPT !.children[i].state = "exited"])

Next ==
  \/ GetInput
  \/ ScanTooMany
  \/ ScanWord
  \/ ScanInput
  \/ ScanOutput
  \/ ScanPipe
  \/ ScanEnd
  \/ ClosePipes
  \/ WaitReturn
  \/ \E i \in 1..Len(children) : ChildExec(i)
  \/ \E i \in 1..Len(children) : ChildWrite(i)
  \/ \E i \in 1..Len(children) : ChildRead(i)
  \/ \E i \in 1..Len(children) : ChildExit(i)

Spec == Init /\ [][Next]_vars

\* the runs in which every system call of the parent succeeds
NoFault == faults' = faults
NextNoFault ==
  \/ GetInput /\ NoFault
  \/ ScanTooMany
  \/ ScanWord
  \/ ScanInput
  \/ ScanOutput /\ NoFault
  \/ ScanPipe /\ NoFault
  \/ ScanEnd /\ NoFault
  \/ ClosePipes /\ NoFault
  \/ WaitReturn /\ NoFault
  \/ \E i \in 1..Len(children) : ChildExec(i) /\ NoFault
  \/ \E i \in 1..Len(children) : ChildWrite(i)
  \/ \E i \in 1..Len(children) : ChildRead(i)
  \/ \E i \in 1..Len(children) : ChildExit(i)

SpecNoFault == Init /\ [][NextNoFault]_vars

\* some live process holds the write end of pipe p: the parent, a child
\* whose standard output it is, or a child that kept its original descriptor
WriteEndOpen(p) ==
  \/ pc # "exited" /\ PipeEnd(p, "w") \in fds
  \/ \E j \in 1..Len(children) :
       /\ children[j].state # "exited"
       /\ \/ children[j].stdout = PipeEnd(p, "w")
          \/ PipeEnd(p, "w") \in children[j].held

\* read() on the standard input of child i returns end-of-file, or the
\* child's standard input is not a pipe
AtEof(i) ==
  children[i].stdin.kind = "pipe" =>
    (fill[children[i].stdin.pipe] = 0 /\ ~WriteEndOpen(children[i].stdin.pipe))

\* the runs of one call of parse_input_and_exec in which no stage writes more
\* than the pipe holds
NextLive ==
  \/ GetInput /\ nlines' <= 1
  \/ ScanTooMany
  \/ ScanWord
  \/ ScanInput
  \/ ScanOutput
  \/ ScanPipe
  \/ ScanEnd
  \/ ClosePipes
  \/ WaitReturn
  \/ \E i \in 1..Len(children) : ChildExec(i)
  \/ \E i \in 1..Len(children) : ChildWrite(i) /\ children'[i].state # "blocked"
  \/ \E i \in 1..Len(children) : ChildRead(i)
  \/ \E i \in 1..Len(children) : ChildExit(i)

\* one iteration of the scanning loop
ScanStep ==
  ScanTooMany \/ ScanWord \/ ScanInput \/ ScanOutput \/ ScanPipe \/ ScanEnd
\* a program reads what is in the pipe
Reads == \E i \in 1..Len(children) : ChildRead(i)
\* a forked child runs its branch of the launcher
Execs == \E i \in 1..Len(children) : ChildExec(i)
\* a program that has read end-of-file, or whose input is not a pipe,
\* terminates
Terminates == \E i \in 1..Len(children) : ChildExit(i) /\ AtEof(i)

\* the parent keeps running its loop and returns from wait() once its child
\* has terminated; programs read their input and terminate at end-of-file
SpecLive ==
  /\ Init /\ [][NextLive]_vars
  /\ WF_vars(ScanStep) /\ WF_vars(ClosePipes) /\ WF_vars(WaitReturn)
  /\ WF_vars(Execs) /\ WF_vars(Reads) /\ WF_vars(Terminates)
\* ---- the claims ----

\* parse_input_and_exec has returned for the current line
Returned == pc = "prompt" /\ nlines > 0

Last(q) == q[Len(q)]
Printed(m) == \E i \in 1..Len(msgs) : msgs[i] = m
\* a system call of the parent failed on this line
SysFailed == \E m \in {"pipe()", "fork()", "open()", "close()"} : Printed(m)
\* a call of a child failed on this line: the child exited without running
\* its program
ChildFailed ==
  \E i \in 1..Len(children) : children[i].state = "exited" /\ ~children[i].execs
HasRedir(l) == \E i \in 1..Len(l) : l[i] \in {"<", ">", ">>"}
NoOps(l) == \A i \in 1..Len(l) : ~IsOp(l[i])
OpenPipeFds == {d \in fds : d.kind = "pipe"}

\* the stages of a line: the runs of tokens between `|` tokens
RECURSIVE Stages(_)
Stages(l) ==
  IF l = <<>> THEN << <<>> >>
  ELSE LET rest == Stages(Tail(l))
       IN IF Head(l) = "|" THEN << <<>> >> \o rest
          ELSE << <<Head(l)>> \o rest[1] >> \o Tail(rest)

\* the line is n >= 2 non-empty stages of at most MAX_ARGS words, no redirection
PurePipeline(l) ==
  /\ ~HasRedir(l)
  /\ Len(Stages(l)) >= 2
  /\ \A i \in 1..Len(Stages(l)) :
       Stages(l)[i] # <<>> /\ Len(Stages(l)[i]) <= MAX_ARGS

\* C1: when the builder returns from a line of n >= 2 non-empty stages
\* separated by `|`, with no redirection and no failed system call, it has
\* forked exactly n children in stage order and created n - 1 pipes; child i
\* writes pipe i and child i + 1 reads pipe i, the first child's stdin and the
\* last child's stdout are inherited, and the parent holds no pipe descriptor.
C1_PipelineWiring ==
  (Returned /\ PurePipeline(line) /\ ~SysFailed) =>
    LET st == Stages(line)
        n == Len(st)
    IN /\ ret = EXEC_SUCCESS
       /\ Len(children) = n
       /\ npipes = n - 1
       /\ \A i \in 1..n :
            /\ children[i].argv = st[i]
            /\ children[i].stdin = (IF i = 1 THEN Tty ELSE PipeEnd(i - 1, "r"))
            /\ children[i].stdout = (IF i = n THEN Tty ELSE PipeEnd(i, "w"))
       /\ OpenPipeFds = {}

C1_Witness ==
  /\ Returned /\ ~SysFailed
  /\ line = <<"w1", "|", "w3", "|", "w5">>
  /\ Len(children) = 3 /\ npipes = 2

Times(q, x) == Cardinality({i \in 1..Len(q) : q[i] = x})

\* C2: whenever the parent is between lines, it holds no pipe descriptor
\* (neither of this line nor of an earlier one), and each end of each pipe
\* created on the line has been closed by the parent exactly once.
C2_NoPipeLeak ==
  pc = "prompt" =>
    /\ OpenPipeFds = {}
    /\ stale = 0
    /\ \A p \in 1..npipes : \A e \in {"r", "w"} : Times(closed, PipeEnd(p, e)) = 1

\* the step scans the operator or end of line that follows the tokens in line
ScansOp(t) == pc = "scan" /\ line' = Append(line, t)
Aborted(m) ==
  /\ pc' = "prompt" /\ ret' = EXEC_FAILURE
  /\ msgs' = Append(msgs, m)
NothingLaunched ==
  /\ children' = children /\ npipes' = npipes /\ opens' = opens /\ fds' = fds

\* C3: a step that scans `|` while the stage before it is empty (first token
\* of the line, or directly after another `|`) aborts the line with the
\* missing-program error, returns failure, forks no child and creates no pipe.
C3_EmptyStagePipeAborts ==
  [][(ScansOp("|") /\ (line = <<>> \/ Last(line) = "|"))
       => (Aborted("Missing program to pipe to.") /\ NothingLaunched)]_vars
\* C4: a step that scans an operator or the end of the line directly after a
\* redirection operator (no file name was collected for it) aborts the line
\* with a reported error and failure, and opens no file and forks no child.
C4_MissingFileAborts ==
  [][(/\ pc = "scan" /\ line # <<>> /\ Last(line) \in {"<", ">", ">>"}
      /\ (line' = line \/ \E t \in Ops : line' = Append(line, t)))
       => (/\ pc' = "prompt" /\ ret' = EXEC_FAILURE
           /\ Len(msgs') = Len(msgs) + 1
           /\ NothingLaunched)]_vars

\* C5 as stated: every returned line without operator tokens has forked
\* exactly one child, with the whole token list as argument vector, and that
\* child has terminated.
C5_OneChildForEveryPlainLine ==
  (Returned /\ NoOps(line)) =>
    /\ Len(children) = 1
    /\ children[1].argv = line
    /\ children[1].state = "exited"

\* C5 amended: every returned line without operator tokens and with at most
\* MAX_ARGS tokens, on which fork did not fail, has forked exactly one child,
\* by exec_command with inherited streams, with the whole token list as
\* argument vector in order, and that child has terminated before the return.
C5_OneChildForPlainLine ==
  (Returned /\ NoOps(line) /\ Len(line) <= MAX_ARGS /\ ~Printed("fork()")) =>
    /\ ret = EXEC_SUCCESS
    /\ Len(children) = 1
    /\ children[1].by = "exec_command"
    /\ children[1].argv = line
    /\ children[1].stdin = Tty /\ children[1].stdout = Tty
    /\ children[1].state = "exited"

C5_Witness ==
  /\ Returned /\ NoOps(line) /\ Len(line) = MAX_ARGS
  /\ Len(children) = 1 /\ children[1].state = "exited"

\* the words collected since the last operator of l
RECURSIVE RunLen(_)
RunLen(l) ==
  IF l = <<>> \/ IsOp(Last(l)) THEN 0 ELSE 1 + RunLen(SubSeq(l, 1, Len(l) - 1))

\* C6 as stated: a line that ran into the argument limit returned failure and
\* forked no child at all.
C6_TooManySpawnsNothing ==
  (Returned /\ Printed("Too many args.")) =>
    (ret = EXEC_FAILURE /\ children = <<>>)

\* C6 amended: the scanner's fill index is the number of words collected since
\* the last operator; scanning a word launches nothing; and once more than
\* MAX_ARGS words are collected the line is aborted with the too-many-args
\* error and failure, and nothing is launched at or after the over-long run
\* (children of stages ended by an earlier operator have already run).
C6_TooManyAborts ==
  /\ [](pc = "scan" => cmd_index = RunLen(line))
  /\ [][(pc = "scan" /\ cmd_index >= MAX_ARGS + 1)
          => (Aborted("Too many args.") /\ NothingLaunched /\ line' = line)]_vars
  /\ [][(pc = "scan" /\ \E k \in 1..(Len(line) + 1) : line' = Append(line, Word(k)))
          => (pc' = "scan" /\ NothingLaunched)]_vars

C6_Witness ==
  /\ Returned /\ ret = EXEC_FAILURE
  /\ msgs # <<>> /\ Last(msgs) = "Too many args."
  /\ NumOps(line) >= 1 /\ RunLen(line) = MAX_ARGS + 1

Blocked(i) == children[i].state = "blocked"

\* C7: a pipeline child that is blocked writing to its full output pipe is
\* the last child forked; the parent is in the launcher that forked it, about
\* to wait or waiting for it, and holds the read end of that pipe, which no
\* child reads.  Once the parent waits nothing happens any more: no further
\* child is forked and parse_input_and_exec does not return.  Before that
\* the only step is the parent's close_pipes of the previous pair, which
\* forks nothing (when a close() fails there the parent exits and the
\* writer, left without a reader, is killed by SIGPIPE).
C7_WriterDeadlock ==
  /\ [](\A i \in 1..Len(children) :
         Blocked(i) =>
           /\ pc \in {"wait", "close_pipes", "exited"}
           /\ pc = "close_pipes" => children[i].by = "inter_pipe"
           /\ pc = "exited" => exitCause = "close()"
           /\ i = Len(children)
           /\ children[i].stdout.kind = "pipe"
           /\ fill[children[i].stdout.pipe] = PipeCap
           /\ PipeEnd(children[i].stdout.pipe, "r") \in fds
           /\ \A j \in 1..Len(children) : children[j].stdin # PipeEnd(children[i].stdout.pipe, "r"))
  /\ [][~(pc = "wait" /\ \E i \in 1..Len(children) : Blocked(i))]_vars
  /\ [][(\E i \in 1..Len(children) : Blocked(i)) =>
          \/ /\ pc = "close_pipes" /\ pc' \in {"wait", "exited"}
             /\ children' = children /\ npipes' = npipes
          \/ /\ pc = "exited" /\ pc' = "exited"
             /\ Len(children') = Len(children)
             /\ Last(children').state = "exited"]_vars

C7_Witness ==
  /\ pc = "wait" /\ Len(children) = 2 /\ Blocked(2)
  /\ children[2].by = "inter_pipe"

\* C8 as stated: the parent terminates in get_input only; no step taken
\* while a line is being processed terminates it.
C8_NoExitWhileProcessing ==
  [][(pc \in {"scan", "close_pipes", "wait"}) => (pc' # "exited")]_vars

\* C8 amended: the parent terminates only on an exit request, on end of
\* input, on a read error of get_input, on a failed pipe() at a `|`, or on a
\* failed close() of a pipe end right after forking a stage that reads a pipe;
\* a failed fork, a failed open and a failed close of a redirection file are
\* reported and the parent goes on.
C8_ExitCauses ==
  /\ [][(pc # "exited" /\ pc' = "exited") =>
          (\/ pc = "prompt" /\ exitCause' \in {"exit", "eof", "get_input()"}
           \/ /\ pc = "scan" /\ exitCause' = "pipe()"
              /\ line' = Append(line, "|") /\ msgs' = Append(msgs, "pipe()")
           \/ /\ pc = "close_pipes" /\ exitCause' = "close()"
              /\ msgs' = Append(msgs, "close()")
              /\ children' = children
              /\ Last(children).by \in {"inter_pipe", "output_pipe", "output_pipe_redirect"}
              /\ Last(children).stdin.kind = "pipe")]_vars
  /\ [][(\E m \in {"fork()", "open()"} : msgs' = Append(msgs, m))
          => (pc' \in {"scan", "prompt"} /\ exitCause' = exitCause)]_vars
  /\ [][(msgs' = Append(msgs, "close()") /\ pc # "close_pipes")
          => (pc' \in {"scan", "prompt"} /\ exitCause' = exitCause)]_vars

C8_Witness ==
  /\ pc = "scan" /\ nlines = 2 /\ faults = 1 /\ stale = 2

\* C9: a step that scans `|` in an output mode aborts the line with the
\* output-before-piping error and failure and launches nothing; and on every
\* line that returned success no `|` comes after a `>` or `>>`.
C9_NoPipeAfterOutput ==
  /\ []((Returned /\ ret = EXEC_SUCCESS) =>
          ~(\E i, j \in 1..Len(line) :
               i < j /\ line[i] \in {">", ">>"} /\ line[j] = "|"))
  /\ [][(ScansOp("|") /\ redirect_mode \in {OUTPUT, OUTPUT_APPEND})
          => (Aborted("Cannot perform output operation before piping.")
              /\ NothingLaunched)]_vars

C9_Witness ==
  /\ Returned /\ ret = EXEC_FAILURE
  /\ line = <<"w1", ">>", "w3", "|">>
  /\ Last(msgs) = "Cannot perform output operation before piping."
  /\ children = <<>> /\ opens = <<>>

\* C10: a step that scans `<` in mode None moves the words collected so far
\* to the pending stage buffer, empties the argument vector and sets the mode
\* to Input, launching nothing; in any other mode it aborts the line with an
\* error and failure, launching nothing.  So a `<` that follows any operator
\* is the last token scanned on a line that returned failure.
C10_InputOnlyFromNone ==
  /\ [](\A j \in 1..Len(line) :
          (line[j] = "<" /\ \E i \in 1..(j - 1) : IsOp(line[i]))
            => (pc \notin {"scan", "wait"} /\ ret = EXEC_FAILURE /\ j = Len(line)))
  /\ [][ScansOp("<") =>
          IF redirect_mode = REG_CMD
          THEN /\ pc' = "scan" /\ redirect_mode' = INPUT /\ cmd_index' = 0
               /\ Argv(redirect_cmd') = line
               /\ Argv(command') = <<>>
               /\ msgs' = msgs
               /\ NothingLaunched
          ELSE /\ Aborted("Cannot perform redirection before input.")
               /\ NothingLaunched]_vars

C10_Witness ==
  /\ pc = "scan" /\ redirect_mode = INPUT
  /\ line = <<"w1", "<">>
  /\ Argv(redirect_cmd) = <<"w1">> /\ Argv(command) = <<>>

\* ---- redirection combined with piping ----

OpsIn(q) == {i \in 1..Len(q) : IsOp(q[i])}
\* the position of the operator of a stage that holds exactly one
OpAt(q) == CHOOSE i \in OpsIn(q) : TRUE
\* a stage of words only
PlainStage(q) == q # <<>> /\ NoOps(q) /\ Len(q) <= MAX_ARGS
\* a stage `words op words` whose only operator is one of ops
OneRedir(q, ops) ==
  /\ Cardinality(OpsIn(q)) = 1
  /\ q[OpAt(q)] \in ops
  /\ 1 < OpAt(q) /\ OpAt(q) < Len(q)
  /\ OpAt(q) - 1 <= MAX_ARGS /\ Len(q) - OpAt(q) <= MAX_ARGS
CmdOf(q) == SubSeq(q, 1, OpAt(q) - 1)
FileOf(q) == q[OpAt(q) + 1]
ModeOf(op) == IF op = ">>" THEN OUTPUT_APPEND ELSE OUTPUT

\* `a < in | ... | z`, `a | ... | z > out` or `a < in | ... | z > out`
RedirPipeline(l) ==
  LET st == Stages(l)
      n == Len(st)
  IN /\ n >= 2
     /\ PlainStage(st[1]) \/ OneRedir(st[1], {"<"})
     /\ \A i \in 2..(n - 1) : PlainStage(st[i])
     /\ PlainStage(st[n]) \/ OneRedir(st[n], {">", ">>"})
     /\ ~PlainStage(st[1]) \/ ~PlainStage(st[n])

\* C11: when the builder returns from a pipeline whose first stage is
\* `a < in` and/or whose last stage is `z > out` or `z >> out`, without a
\* failed system call in the parent or in a child, it has forked one child
\* per stage and the files opened are `in` and `out`, by those children; a
\* first stage
\* `a < in` is run by input_pipe_redirect as a with `in` opened read-only as
\* stdin and the write end of pipe 1 as stdout; a last stage `z > out` is run
\* by output_pipe_redirect as z with the read end of the last pipe as stdin
\* and `out` (truncating for `>`, appending for `>>`) as stdout; the stages
\* between are wired pipe to pipe.
C11_RedirectedPipelineWiring ==
  (Returned /\ RedirPipeline(line) /\ ~SysFailed /\ ~ChildFailed) =>
    LET st == Stages(line)
        n == Len(st)
    IN /\ ret = EXEC_SUCCESS
       /\ Len(children) = n /\ npipes = n - 1
       /\ \A i \in 1..n : children[i].execs
       /\ opens =
            (IF PlainStage(st[1]) THEN <<>>
             ELSE <<Opened(FileOf(st[1]), INPUT, "child")>>)
            \o (IF PlainStage(st[n]) THEN <<>>
                ELSE <<Opened(FileOf(st[n]), ModeOf(st[n][OpAt(st[n])]), "child")>>)
       /\ IF PlainStage(st[1])
          THEN /\ children[1].by = "input_pipe"
               /\ children[1].argv = st[1]
               /\ children[1].stdin = Tty
          ELSE /\ children[1].by = "input_pipe_redirect"
               /\ children[1].argv = CmdOf(st[1])
               /\ children[1].stdin = FileFd(FileOf(st[1]), INPUT)
               /\ children[1].stdin.end = "rdonly"
       /\ children[1].stdout = PipeEnd(1, "w")
       /\ \A i \in 2..(n - 1) :
            /\ children[i].by = "inter_pipe"
            /\ children[i].argv = st[i]
            /\ children[i].stdin = PipeEnd(i - 1, "r")
            /\ children[i].stdout = PipeEnd(i, "w")
       /\ IF PlainStage(st[n])
          THEN /\ children[n].by = "output_pipe"
               /\ children[n].argv = st[n]
               /\ children[n].stdout = Tty
          ELSE /\ children[n].by = "output_pipe_redirect"
               /\ children[n].argv = CmdOf(st[n])
               /\ children[n].stdout =
                    FileFd(FileOf(st[n]), ModeOf(st[n][OpAt(st[n])]))
               /\ children[n].stdout.end =
                    (IF st[n][OpAt(st[n])] = ">>" THEN "append" ELSE "trunc")
       /\ children[n].stdin = PipeEnd(n - 1, "r")

C11_Witness ==
  /\ Returned /\ ~SysFailed /\ ~ChildFailed
  /\ line = <<"w1", "<", "w3", "|", "w5", ">>", "w7">>
  /\ Len(children) = 2
  /\ children[1].by = "input_pipe_redirect"
  /\ children[2].by = "output_pipe_redirect" /\ children[2].argv = <<"w5">>

\* ---- truncating and appending output ----

OutOps(l) == {i \in 1..Len(l) : l[i] \in {">", ">>"}}
\* the last output operator of a line that has one
LastOutPos(l) == CHOOSE i \in OutOps(l) : \A j \in OutOps(l) : j <= i
LastOutOp(l) == l[LastOutPos(l)]
\* the token that follows the last output operator
LastOutFile(l) == l[LastOutPos(l) + 1]
FlagsOf(op) == IF op = ">>" THEN "append" ELSE "trunc"
\* the children whose standard output is a file
ToFile == {i \in 1..Len(children) : children[i].stdout.kind = "file"}

\* what child i has written to its standard output
Written(i) == IF children[i].wrote THEN Output ELSE <<>>

\* C12: a child's standard output is a file only in the child forked at the
\* end of the line by exec_command, exec_redir_bothio or output_pipe_redirect;
\* the file is the one named after the last output operator, and once the
\* program runs it is the last file opened on the line, opened truncating
\* when the last output operator of the line is `>` and appending when it is
\* `>>`.  When the line has returned without a failed system call and the
\* program was executed, a watched output file holds exactly this run's
\* output after `>`, and what it held when the line was entered followed by
\* this run's output after `>>`; so two successive `cmd > f` whose second
\* run writes leave the second output, and two successive `cmd >> f` that
\* write leave old contents, first output, second output.
C12_TruncateOrAppend ==
  /\ \A i \in ToFile :
       /\ i = Len(children)
       /\ pc \in {"close_pipes", "wait", "prompt", "exited"}
       /\ children[i].by \in {"exec_command", "exec_redir_bothio", "output_pipe_redirect"}
       /\ OutOps(line) # {}
       /\ children[i].stdout.end = FlagsOf(LastOutOp(line))
       /\ LastOutPos(line) < Len(line)
       /\ children[i].stdout.file = LastOutFile(line)
       /\ children[i].execs =>
            /\ opens # <<>>
            /\ Last(opens).file = LastOutFile(line)
            /\ Last(opens).flags = FlagsOf(LastOutOp(line))
  /\ \A i \in ToFile :
       (/\ Returned /\ ~SysFailed /\ children[i].execs
        /\ children[i].stdout.file \in Watched) =>
         LET f == children[i].stdout.file
         IN disk[f] = (IF LastOutOp(line) = ">>" THEN disk0[f] \o Written(i)
                       ELSE Written(i))
  /\ (/\ Returned /\ ~SysFailed /\ nlines = 2
      /\ ToFile # {} /\ LastOutFile(line) = "w3" /\ line[1] = "w1"
      /\ Last(children).wrote) =>
        /\ (LastOutOp(line) = ">" => disk["w3"] = <<2>>)
        /\ (LastOutOp(line) = ">>" /\ disk0["w3"] = <<0, 1>>
              => disk["w3"] = <<0, 1, 2>>)

\* `cmd >> f` has run on two successive lines
C12_Witness ==
  /\ Returned /\ ~SysFailed /\ nlines = 2
  /\ line = <<"w1", ">>", "w3">>
  /\ Last(children).wrote
  /\ disk0["w3"] = <<0, 1>> /\ disk["w3"] = <<0, 1, 2>>

\* `cmd >> f` and then `cmd > f` have run: f holds the second output only
TwoRunsOverwrite ==
  /\ Returned /\ ~SysFailed /\ nlines = 2
  /\ line = <<"w1", ">", "w3">>
  /\ Last(children).wrote
  /\ disk0["w3"] = <<0, 1>> /\ disk["w3"] = <<2>>

\* ---- output chains ----

\* the i-th smallest element of a set of numbers
Nth(S, i) == CHOOSE x \in S : Cardinality({y \in S : y <= x}) = i
\* no run of more than MAX_ARGS words
RunsFit(l) ==
  \A i \in 1..(Len(l) - MAX_ARGS) : \E j \in i..(i + MAX_ARGS) : IsOp(l[j])
\* a stage `cmd [< in] op1 f1 op2 f2 ... opk fk` with k >= 2
ChainStage(q) ==
  /\ Cardinality(OutOps(q)) >= 2
  /\ \A i \in OutOps(q) : i < Len(q) /\ ~IsOp(q[i + 1])
  /\ \A i \in OpsIn(q) : i > Nth(OutOps(q), 1) => i \in OutOps(q)
  /\ LET pre == SubSeq(q, 1, Nth(OutOps(q), 1) - 1)
     IN PlainStage(pre) \/ OneRedir(pre, {"<"})
ChainLine(l) ==
  LET st == Stages(l)
      n == Len(st)
  IN /\ RunsFit(l)
     /\ ChainStage(st[n])
     /\ \A i \in 1..(n - 1) : PlainStage(st[i])
\* the files opened for output on the line, in order
OutputOpens == SelectSeq(opens, LAMBDA o : o.flags # "rdonly")

\* C13: in an output mode the mode is that of the last output operator; a
\* step that scans `>` or `>>` in an output mode with a file token collected,
\* and no failed call, opens that file in the parent with the flags of the
\* operator before it (truncating a watched file iff that operator is `>`),
\* closes it again, forks nothing and goes on scanning.  When a line whose
\* last stage is `cmd [< in] op1 f1 ... opk fk` (k >= 2) has returned without
\* a failed call in the parent or in a child, the files opened for output are f1 .. fk in order, fi with
\* the flags of opi, all but the last by the parent, and exactly one child,
\* the last forked, has a file as standard output: fk with the flags of opk.
C13_LastRedirectionWins ==
  /\ []((pc = "scan" /\ redirect_mode \in {OUTPUT, OUTPUT_APPEND}) =>
          (OutOps(line) # {} /\ redirect_mode = ModeOf(LastOutOp(line))))
  /\ [][(/\ \E t \in {">", ">>"} : ScansOp(t)
         /\ redirect_mode \in {OUTPUT, OUTPUT_APPEND}
         /\ cmd_index > 0 /\ faults' = faults)
          => (/\ pc' = "scan"
              /\ opens' = Append(opens, [file |-> LastOutFile(line),
                                         flags |-> FlagsOf(LastOutOp(line)),
                                         by |-> "parent"])
              /\ children' = children /\ fds' = fds /\ npipes' = npipes
              /\ \A f \in Watched :
                   disk'[f] = IF f = LastOutFile(line) /\ LastOutOp(line) = ">"
                              THEN <<>> ELSE disk[f])]_vars
  /\ []((Returned /\ ChainLine(line) /\ ~SysFailed /\ ~ChildFailed) =>
          LET st == Stages(line)
              q == Last(st)
              k == Cardinality(OutOps(q))
              single == Len(st) = 1 /\ \A i \in 1..Len(q) : q[i] # "<"
          IN /\ ret = EXEC_SUCCESS
             /\ Len(children) = Len(st)
             /\ ToFile = {Len(children)}
             /\ Last(children).stdout.file = q[Nth(OutOps(q), k) + 1]
             /\ Last(children).stdout.end = FlagsOf(q[Nth(OutOps(q), k)])
             /\ Last(children).argv =
                  SubSeq(q, 1, Nth(OpsIn(q), 1) - 1)
             /\ Len(OutputOpens) = k
             /\ \A i \in 1..k :
                  /\ OutputOpens[i].file = q[Nth(OutOps(q), i) + 1]
                  /\ OutputOpens[i].flags = FlagsOf(q[Nth(OutOps(q), i)])
                  /\ OutputOpens[i].by =
                       (IF i < k \/ single THEN "parent" ELSE "child"))

C13_Witness ==
  /\ Returned /\ ~SysFailed /\ ~ChildFailed
  /\ line = <<"w1", ">", "w3", ">>", "w5", ">", "w7">>
  /\ Len(children) = 1 /\ Last(children).stdout.file = "w7"
  /\ disk["w3"] = <<>> /\ disk["w5"] = disk0["w5"]
  /\ Len(opens) = 3

\* ---- end-of-line resolution ----

\* the step is the end of the line: strtok returned NULL
AtEndOfLine == pc = "scan" /\ cmd_index <= MAX_ARGS /\ line' = line
\* the argument vector just completed: the words collected since the last operator
Collected == [i \in 1..cmd_index |-> command[i]]
\* the step forks exactly one child, by launcher `by`, and the parent waits
\* for it, after closing the pair in pipe_fds when the child reads a pipe
Runs(by, argv, in, out) ==
  /\ pc' = (IF in.kind = "pipe" THEN "close_pipes" ELSE "wait")
  /\ to_close' = (IF in.kind = "pipe" THEN pipe_fds ELSE 0)
  /\ Len(children') = Len(children) + 1
  /\ SubSeq(children', 1, Len(children)) = children
  /\ Last(children').by = by
  /\ Last(children').argv = argv
  /\ Last(children').stdin = in
  /\ Last(children').stdout = out

\* C14: an end-of-line step without a failed call does what the scan state
\* says: in mode None exec_command runs the collected words with inherited
\* streams; in another mode with nothing collected the line is aborted with
\* the missing-file error and nothing is launched; in mode Input exec_command
\* runs the pending stage buffer with the first collected token as input
\* file; in an output mode exec_redir_bothio runs if an input file was
\* recorded, else output_pipe_redirect on the live pipe if output-before-pipe
\* was recorded, else exec_command with output redirection, each with the
\* pending stage buffer as command and the first collected token as file; in
\* mode Piping output_pipe runs the collected words.  One child is forked in
\* that step, and when its wait returns the line returns success and nothing
\* else has been launched.
C14_EndOfLineResolution ==
  /\ [][(AtEndOfLine /\ faults' = faults) =>
          IF redirect_mode = REG_CMD
          THEN Runs("exec_command", Collected, Tty, Tty) /\ opens' = opens
          ELSE IF cmd_index = 0
          THEN Aborted("No file for I/O redirection.") /\ NothingLaunched
          ELSE IF redirect_mode = INPUT
          THEN Runs("exec_command", Argv(redirect_cmd),
                    FileFd(command[1], INPUT), Tty)
          ELSE IF redirect_mode = PIPE
          THEN Runs("output_pipe", Collected, PipeEnd(pipe_fds, "r"), Tty)
          ELSE IF input_file # NULL
          THEN Runs("exec_redir_bothio", Argv(redirect_cmd),
                    FileFd(input_file, INPUT), FileFd(command[1], redirect_mode))
          ELSE IF output_before_pipe = 1
          THEN Runs("output_pipe_redirect", Argv(redirect_cmd),
                    PipeEnd(pipe_fds, "r"), FileFd(command[1], redirect_mode))
          ELSE Runs("exec_command", Argv(redirect_cmd),
                    Tty, FileFd(command[1], redirect_mode))]_vars
  /\ [][(pc = "wait" /\ pc' = "prompt") =>
          (/\ ret' = EXEC_SUCCESS /\ children' = children
           /\ opens' = opens /\ npipes' = npipes)]_vars
  /\ [](input_file # NULL => output_before_pipe = 0)

C14_Witness ==
  /\ pc = "wait" /\ faults = 0
  /\ line = <<"w1", "<", "w3", ">", "w5">>
  /\ Len(children) = 1 /\ Last(children).by = "exec_redir_bothio"
  /\ Last(children).stdin.file = "w3" /\ Last(children).stdout.file = "w5"

\* ---- serialized stages ----

\* the children of the interpreter that have not terminated
Alive == {i \in 1..Len(children) : children[i].state # "exited"}

\* C15: at most one child is alive, and it is the last one forked; while the
\* parent scans tokens or is between lines no child is alive; a step that
\* forks a child or scans a token is taken only when every earlier child has
\* terminated.
C15_StagesSerialized ==
  /\ [](/\ Cardinality(Alive) <= 1
        /\ \A i \in Alive : i = Len(children)
        /\ (pc \in {"scan", "prompt"} => Alive = {}))
  /\ [][(Len(children') > Len(children)) =>
          (Alive = {} /\ Len(children') = Len(children) + 1)]_vars
  /\ [][(line' # line /\ line' # <<>>) => Alive = {}]_vars

C15_Witness ==
  /\ pc = "wait" /\ Len(children) = 3
  /\ children[1].state = "exited" /\ children[2].state = "exited"
  /\ children[3].state = "running"
  /\ children[3].by = "output_pipe"

\* ---- program names ----

\* C16: every child forked by an executor or launcher has a non-empty
\* argument vector, so that argv[0] names the program to run.
C16_NoChildWithoutProgram ==
  \A i \in 1..Len(children) : children[i].argv # <<>>

\* ---- descriptors of a child at execvp ----

\* C17: a child that reaches execvp holds none of the original descriptor
\* numbers of this line's pipes and redirection files: all of them were
\* closed after duplication onto the standard streams.
C17_ChildClosesOriginals ==
  \A i \in 1..Len(children) : children[i].execs => children[i].held = {}

\* ---- the pipe pair handed to a launcher ----

\* pipe_fds holds a pair created on this line, both ends open in the parent
LivePair == pipe_fds \in 1..npipes /\ PipeFds(pipe_fds) \subseteq fds

\* C18: whenever the scanner is in mode Piping or has recorded
\* output-before-pipe, the states from which inter_pipe, output_pipe and
\* output_pipe_redirect are called, pipe_fds holds a pair created on this
\* line with both ends open in the parent; a child forked by one of these
\* launchers reads that pair's read end; and close() of a pipe end fails in
\* the parent only when the system call itself fails, never because the
\* descriptor is not open.
C18_LaunchersGetLivePair ==
  /\ []((pc = "scan" /\ (redirect_mode = PIPE \/ output_before_pipe = 1))
          => LivePair)
  /\ [](pc = "close_pipes"
          => (to_close \in 1..npipes /\ PipeFds(to_close) \subseteq fds))
  /\ [][(/\ Len(children') > Len(children)
         /\ Last(children').by \in {"inter_pipe", "output_pipe", "output_pipe_redirect"})
          => (/\ LivePair
              /\ Last(children').stdin = PipeEnd(pipe_fds, "r")
              /\ (Last(children').by = "inter_pipe"
                    => /\ pipe_fds' = npipes' /\ npipes' = npipes + 1
                       /\ Last(children').stdout = PipeEnd(pipe_fds', "w")))]_vars
  /\ [][(msgs' = Append(msgs, "close()") /\ pc' = "exited")
          => faults' = faults + 1]_vars

C18_Witness ==
  /\ pc = "scan" /\ faults = 0
  /\ line = <<"w1", "|", "w3", "|", "w5", ">">>
  /\ output_before_pipe = 1 /\ pipe_fds = 2 /\ npipes = 2
  /\ fds = PipeFds(2)

\* ---- the parent's descriptors on a line without a pipe ----

NoPipe(l) == \A i \in 1..Len(l) : l[i] # "|"

\* C20: on a line without `|` the parent creates no pipe and never exits, it
\* holds at most the one file redirect_io has open, and when the line has
\* returned (with or without an error, a failed open, a failed fork or a
\* failed close) it holds no descriptor it opened on the line.
C20_NoPipeLineRestoresDescriptors ==
  /\ []((pc \in {"scan", "wait"} /\ NoPipe(line)) =>
          (/\ npipes = 0
           /\ fds \subseteq {io_file_fd} /\ Cardinality(fds) <= 1
           /\ (pc = "scan" => fds = {})))
  /\ []((Returned /\ NoPipe(line)) => (fds = {} /\ io_file_fd = Tty))
  /\ [][(pc \in {"scan", "wait"} /\ NoPipe(line') /\ line' # <<>>)
          => (pc' # "exited" /\ stale' = stale)]_vars

C20_Witness ==
  /\ Returned /\ line = <<"w1", ">", "w3">>
  /\ msgs = <<"fork()">> /\ children = <<>>
  /\ Len(opens) = 1 /\ opens[1].by = "parent"
  /\ fds = {}

\* ---- liveness ----

\* C19 as stated: whenever a line is being scanned, parse_input_and_exec
\* eventually returns.
C19_LineReturns == (pc = "scan") ~> Returned

\* C19 amended: whenever a line is being scanned, eventually
\* parse_input_and_exec has returned or the parent has exited in perror_exit
\* (failed pipe() or failed close() of a pipe end); and while the parent
\* waits for a child that reads a pipe and has called execvp, no live
\* process holds the write end of that pipe, so the program reads
\* end-of-file once the pipe is empty.
C19_LineReturnsOrExits ==
  /\ []((/\ pc = "wait" /\ Last(children).stdin.kind = "pipe"
         /\ Last(children).state # "forked")
          => ~WriteEndOpen(Last(children).stdin.pipe))
  /\ (pc = "scan") ~> (Returned \/ (pc = "exited" /\ exitCause \in {"pipe()", "close()"}))

C19_Witness ==
  /\ pc = "wait" /\ Len(children) = 3
  /\ line = <<"w1", "|", "w3", "|", "w5">>
  /\ children[3].state = "running" /\ children[3].stdin = PipeEnd(2, "r")
  /\ fill[2] = 1 /\ ~AtEof(3) /\ ~WriteEndOpen(2)

\* ---- C21 ----

\* the tokens a buffer holds in front of its first terminator
Held(arr) == Len(Argv(arr))
\* a buffer all of whose slots hold a token
Full(arr) == \A i \in Slots : arr[i] # NULL

\* C21: every store into the argument vector or into the pending stage buffer
\* (a token, the terminator at an operator or at the end of the line, the copy
\* made by save_command) uses an index in 0..MAX_ARGS; the fill index never
\* passes MAX_ARGS + 1, a token or a terminator is only stored while it is at
\* most MAX_ARGS, and every stage that is run holds at most MAX_ARGS tokens in
\* front of its terminator.
C21_StoresInsideBuffer ==
  /\ stored \subseteq 0..MAX_ARGS
  /\ cmd_index \in 0..(MAX_ARGS + 1)
  /\ cmd_index = MAX_ARGS + 1 => stored = 0..MAX_ARGS /\ Full(command)
  /\ \A i \in 1..Len(children) : Len(children[i].argv) <= MAX_ARGS
  /\ ~Full(redirect_cmd) /\ Held(redirect_cmd) <= MAX_ARGS

\* a stage of MAX_ARGS tokens is run after its terminator went into the last
\* slot, and so is one that save_command copied slot by slot
C21_Witness ==
  /\ pc = "wait" /\ stored = 0..MAX_ARGS
  /\ Len(line) = MAX_ARGS + 2 /\ line[MAX_ARGS + 1] = ">"
  /\ Held(redirect_cmd) = MAX_ARGS
  /\ Len(Last(children).argv) = MAX_ARGS
====
